---------------------------- MODULE Spec2Model ----------------------------
(***************************************************************************)
(* AgentPayy: the x402 payment protocol of the Python SDK.                 *)
(*                                                                         *)
(*   service side   AgentEconomyHandshake   (agent_protocol.py)            *)
(*                  AgentPayyGate           (meta_bridge.py)               *)
(*                  AgentPayyMiddleware     (examples/fastapi-wrapper)     *)
(*   client side    X402Client.request      (x402.py)                      *)
(*                                                                         *)
(* Amounts are counted in the asset's minimum unit.  The clock counts      *)
(* ticks; TicksPerSecond of them make one second of time.time().           *)
(***************************************************************************)
EXTENDS Integers, Sequences, FiniteSets, TLC

VARIABLES
    now,            \* the wall clock, in ticks
    ledger,         \* the external ledger: transaction hash -> status
    challenges,     \* the challenges AgentEconomyHandshake has issued
    lastDecision,   \* what the latest verification returned
    granted,        \* transaction hash -> number of times access was granted
    oracleConfirmed,\* hashes for which a ledger oracle call returned true
    nverify,        \* number of verification calls made so far
    kit,            \* AgentPayyKit: wallet_data, max_spend, policies
    pc,             \* where X402Client.request stands
    frames,         \* the 402 response held by each active frame of request
    max_retries,    \* the budget of the innermost frame
    tx_header,      \* kwargs['headers']['x-agentpay-tx']
    result,         \* what the outermost request returned
    how,            \* the statement that ended the call
    budget,         \* the max_retries the caller passed
    lastResponse,   \* the latest response the service gave
    requestsSent,   \* requests sent to the service by this call
    walletCalls,    \* kit.pay invocations by this call
    payments,       \* kit.pay invocations of this call that succeeded
    spentSoFar,     \* sum of the prices paid in this session
    calls,          \* number of calls of request in this session
    wallet_class,   \* the AgentPayyWallet on which pay_with_splits is called
    spc,            \* where pay_with_splits stands
    amount,         \* its amount argument
    affiliate_address, \* its affiliate_address argument
    author_cut,     \* the three cuts it computed
    affiliate_cut,
    platform_cut,
    transfers,      \* the wallet transfers it issued, in order
    outcome,        \* what its caller gets: the results or an exception
    handshake,      \* the AgentEconomyHandshake last constructed
    issued,         \* what the last call of its challenge() gave
    paywallAnswers, \* the requests of this call the paywall answered
    kit_call        \* what the last bootstrap or get_address call gave

svcVars == <<now, ledger, challenges, lastDecision, granted,
             oracleConfirmed, nverify>>

cliVars == <<kit, pc, frames, max_retries, tx_header, result, how, budget,
             lastResponse, requestsSent, walletCalls, payments, spentSoFar,
             calls>>

splitVars == <<wallet_class, spc, amount, affiliate_address, author_cut,
               affiliate_cut, platform_cut, transfers, outcome>>

hsVars == <<handshake, issued>>

e2eVars == <<paywallAnswers>>

kitVars == <<kit_call>>

vars == <<svcVars, cliVars, splitVars, hsVars, e2eVars, kitVars>>

-----------------------------------------------------------------------------
(* Bounds *)

MaxTime == 2
MaxVerify == 2
MaxChallenges == 2
MaxRetries == 2
MaxCalls == 2

-----------------------------------------------------------------------------
(* Values *)

\* Python's None: an absent dictionary key or HTTP header.
None == "<None>"

\* Python truthiness of an optional string: None and "" are falsy.
Truthy(v) == v # None /\ v # ""

TicksPerSecond == 2

\* int(time.time())
IntTime(t) == t \div TicksPerSecond

\* Transaction hashes a requester may present.
TxA == "0xaaaaaaaaaaaaaaaaaaaaaaaaaaaaaaaaaaaaaaaaaaaaaaaaaaaaaaaaaaaaaaaa"
TxB == "0xbbbbbbbbbbbbbbbbbbbbbbbbbbbbbbbbbbbbbbbbbbbbbbbbbbbbbbbbbbbbbbbb"
TxC == "0xcccccccccccccccccccccccccccccccccccccccccccccccccccccccccccccccc"
TxShort == "0xdead"

\* The hashes the ledger may come to hold, and every string that may be
\* presented as a hash.
LedgerTxs == {TxA, TxB, TxC}
TxInputs == LedgerTxs \cup {TxShort}

ServiceAddress == "0xService"
OtherAddress == "0xOther"
ServiceName == "weather-v1"
ServiceNetwork == "base-l2"
ServiceAsset == "USDC"

\* The price of the service, self.price / the paywall's price.
Price == 2

\* What each transaction transfers on the ledger once submitted: TxA pays
\* the service its price, TxB underpays, TxC pays somebody else.
TxFields(tx) ==
    CASE tx = TxA -> [recipient |-> ServiceAddress, amount |-> Price,
                      asset |-> ServiceAsset, network |-> ServiceNetwork]
      [] tx = TxB -> [recipient |-> ServiceAddress, amount |-> Price - 1,
                      asset |-> ServiceAsset, network |-> ServiceNetwork]
      [] tx = TxC -> [recipient |-> OtherAddress, amount |-> Price,
                      asset |-> ServiceAsset, network |-> ServiceNetwork]

-----------------------------------------------------------------------------
(* Python floats: IEEE 754 binary64, round to nearest, ties to even *)

\* A natural number is a sequence of limbs in base 2^15, least significant
\* first, whose last limb is not 0; zero is the empty sequence.
LimbBits == 15
LimbBase == 2 ^ LimbBits

Limb(x, i) == IF i <= Len(x) THEN x[i] ELSE 0

RECURSIVE TrimLimbs(_)
TrimLimbs(x) ==
    IF x = <<>> \/ x[Len(x)] # 0 THEN x
    ELSE TrimLimbs(SubSeq(x, 1, Len(x) - 1))

FromNat(n) == TrimLimbs(<<n % LimbBase, n \div LimbBase>>)

RECURSIVE AddCarry(_, _, _)
AddCarry(x, y, c) ==
    IF x = <<>> /\ y = <<>> THEN (IF c = 0 THEN <<>> ELSE <<c>>)
    ELSE LET t == Limb(x, 1) + Limb(y, 1) + c IN
         <<t % LimbBase>> \o AddCarry(IF x = <<>> THEN x ELSE Tail(x),
                                      IF y = <<>> THEN y ELSE Tail(y),
                                      t \div LimbBase)

AddLimbs(x, y) == AddCarry(x, y, 0)

\* x - y for x >= y
RECURSIVE SubBorrow(_, _, _)
SubBorrow(x, y, c) ==
    IF x = <<>> THEN <<>>
    ELSE LET t == Limb(x, 1) - Limb(y, 1) - c IN
         <<t % LimbBase>> \o SubBorrow(Tail(x),
                                       IF y = <<>> THEN y ELSE Tail(y),
                                       IF t < 0 THEN 1 ELSE 0)

SubLimbs(x, y) == TrimLimbs(SubBorrow(x, y, 0))

LessLimbs(x, y) ==
    IF Len(x) # Len(y) THEN Len(x) < Len(y)
    ELSE \E i \in 1..Len(x) :
            /\ x[i] < y[i]
            /\ \A j \in (i + 1)..Len(x) : x[j] = y[j]

\* x * d + c for a single limb d
RECURSIVE MulSmall(_, _, _)
MulSmall(x, d, c) ==
    IF x = <<>> THEN (IF c = 0 THEN <<>> ELSE <<c>>)
    ELSE LET t == Head(x) * d + c IN
         <<t % LimbBase>> \o MulSmall(Tail(x), d, t \div LimbBase)

RECURSIVE MulLimbs(_, _)
MulLimbs(x, y) ==
    IF y = <<>> THEN <<>>
    ELSE TrimLimbs(AddLimbs(MulSmall(x, Head(y), 0),
                            <<0>> \o MulLimbs(x, Tail(y))))

\* x * 2^k, x \div 2^k and x % 2^k
ShiftLeft(x, k) ==
    IF x = <<>> THEN x
    ELSE [i \in 1..(k \div LimbBits) |-> 0]
         \o MulSmall(x, 2 ^ (k % LimbBits), 0)

ShiftRight(x, k) ==
    LET a == k \div LimbBits
        r == k % LimbBits
    IN  TrimLimbs([i \in 1..(Len(x) - a) |->
                     (x[a + i] \div (2 ^ r))
                     + (Limb(x, a + i + 1) % (2 ^ r)) * (2 ^ (LimbBits - r))])

LowBits(x, k) ==
    LET a == k \div LimbBits
        r == k % LimbBits
    IN  TrimLimbs([i \in 1..(a + 1) |->
                     IF i <= a THEN Limb(x, i) ELSE Limb(x, i) % (2 ^ r)])

\* The number of bits of x, and the number of its low zero bits (x # 0).
BitLength(x) ==
    IF x = <<>> THEN 0
    ELSE LimbBits * (Len(x) - 1)
         + (CHOOSE b \in 1..LimbBits :
                2 ^ (b - 1) <= x[Len(x)] /\ x[Len(x)] < 2 ^ b)

LowZeros(x) ==
    LET i == CHOOSE j \in 1..Len(x) :
                 x[j] # 0 /\ \A k \in 1..(j - 1) : x[k] = 0
    IN  LimbBits * (i - 1)
        + (CHOOSE t \in 0..(LimbBits - 1) :
               x[i] % (2 ^ t) = 0 /\ x[i] % (2 ^ (t + 1)) # 0)

\* The number written as hexadecimal digits, most significant digit first.
RECURSIVE HexLimbs(_)
HexLimbs(h) ==
    IF h = <<>> THEN <<>>
    ELSE MulSmall(HexLimbs(SubSeq(h, 1, Len(h) - 1)), 16, h[Len(h)])

\* A float is (-1)^neg * m * 2^e with m odd, or zero.
Zero == [neg |-> FALSE, m |-> <<>>, e |-> 0]

Canon(neg, m, e) ==
    IF m = <<>> THEN Zero
    ELSE LET z == LowZeros(m) IN
         [neg |-> neg, m |-> ShiftRight(m, z), e |-> e + z]

\* The significand of a binary64 holds 53 bits.
MantissaBits == 53

\* A number rounded to the nearest float, ties to even.
RoundFloat(x) ==
    IF BitLength(x.m) <= MantissaBits THEN x
    ELSE LET k == BitLength(x.m) - MantissaBits
             q == ShiftRight(x.m, k)
             rest == LowBits(x.m, k)
             half == ShiftLeft(<<1>>, k - 1)
             up == \/ LessLimbs(half, rest)
                   \/ (rest = half /\ q[1] % 2 = 1)
         IN  Canon(x.neg, IF up THEN AddLimbs(q, <<1>>) ELSE q, x.e + k)

FromInt(n) == Canon(n < 0, FromNat(IF n < 0 THEN -n ELSE n), 0)

Neg(x) == IF x = Zero THEN Zero ELSE [x EXCEPT !.neg = ~x.neg]

\* Exact product and sum of two floats (not rounded).
ExactMul(x, y) == Canon(x.neg # y.neg, MulLimbs(x.m, y.m), x.e + y.e)

ExactAdd(x, y) ==
    IF x = Zero THEN y
    ELSE IF y = Zero THEN x
    ELSE LET e == IF x.e < y.e THEN x.e ELSE y.e
             xm == ShiftLeft(x.m, x.e - e)
             ym == ShiftLeft(y.m, y.e - e)
         IN  IF x.neg = y.neg THEN Canon(x.neg, AddLimbs(xm, ym), e)
             ELSE IF LessLimbs(xm, ym) THEN Canon(y.neg, SubLimbs(ym, xm), e)
             ELSE Canon(x.neg, SubLimbs(xm, ym), e)

\* Python's float * float and float - float
fmul(x, y) == RoundFloat(ExactMul(x, y))
fsub(x, y) == RoundFloat(ExactAdd(x, Neg(y)))

IsPositive(x) == x # Zero /\ ~x.neg

\* The literals 0.80 and 0.05: 0x1.999999999999ap-1 and 0x1.999999999999ap-5
Float080 ==
    Canon(FALSE, HexLimbs(<<1, 9, 9, 9, 9, 9, 9, 9, 9, 9, 9, 9, 9, 10>>), -53)
Float005 ==
    Canon(FALSE, HexLimbs(<<1, 9, 9, 9, 9, 9, 9, 9, 9, 9, 9, 9, 9, 10>>), -57)

-----------------------------------------------------------------------------
(* The external ledger and its oracle *)

LedgerStatus(tx) == IF tx \in LedgerTxs THEN ledger[tx] ELSE "none"

\* wallet.verify_transaction(tx_hash, expected_amount=self.price): the
\* oracle is told the hash and the amount, and nothing else.
verify_transaction(tx_hash, expected_amount) ==
    /\ LedgerStatus(tx_hash) = "confirmed"
    /\ TxFields(tx_hash).amount >= expected_amount

\* wallet.verify_tx(proof): the oracle is told the hash only.
verify_tx(tx_hash) == LedgerStatus(tx_hash) = "confirmed"

\* A transaction is broadcast.
LedgerSubmit(tx) ==
    /\ ledger[tx] = "none"
    /\ ledger' = [ledger EXCEPT ![tx] = "pending"]
    /\ UNCHANGED <<now, challenges, lastDecision, granted, oracleConfirmed,
                   nverify, cliVars, splitVars, hsVars, e2eVars, kitVars>>

\* A broadcast transaction is finalized.
LedgerConfirm(tx) ==
    /\ ledger[tx] = "pending"
    /\ ledger' = [ledger EXCEPT ![tx] = "confirmed"]
    /\ UNCHANGED <<now, challenges, lastDecision, granted, oracleConfirmed,
                   nverify, cliVars, splitVars, hsVars, e2eVars, kitVars>>

Tick ==
    /\ now < MaxTime
    /\ now' = now + 1
    /\ UNCHANGED <<ledger, challenges, lastDecision, granted,
                   oracleConfirmed, nverify, cliVars, splitVars, hsVars, e2eVars, kitVars>>

-----------------------------------------------------------------------------
(* AgentEconomyHandshake *)

\* challenge(self): the dictionary built at lines 16-24; issuedAt is the
\* instant of the call.
challenge_of(self) ==
    [status |-> 402,
     service |-> self.service_name,
     cost |-> self.price,
     recipient |-> self.wallet.address,
     chain |-> ServiceNetwork,
     transaction_memo |-> <<"B2B", self.service_name, IntTime(now)>>,
     issuedAt |-> now]

\* The handshake of the service: AgentEconomyHandshake(kit, ServiceName,
\* Price) over a bootstrapped kit.
ServiceHandshake ==
    [service_name |-> ServiceName,
     price |-> Price,
     wallet |-> [isNone |-> FALSE, address |-> ServiceAddress]]

challenge == challenge_of(ServiceHandshake)

NoChallenge == [status |-> 0]

\* The messages a requesting bot may send: a proof (or none), in answer to
\* a challenge it was given earlier (or to none).
Messages ==
    [payment_proof : TxInputs \cup {None, ""},
     answers : challenges \cup {NoChallenge}]

\* The validity window of a challenge: a fixed time to live from its issue.
ChallengeTTL == 1

expiresAt(c) == c.issuedAt + ChallengeTTL

\* Where the clock stands relative to the window of the challenge a message
\* answers.
Window(c) ==
    IF c = NoChallenge THEN "unbound"
    ELSE IF now < c.issuedAt \/ now > expiresAt(c) THEN "expired"
    ELSE "open"

\* What a verification returned: who decided, on which proof, presented in
\* answer to which challenge, and whether a ledger oracle was consulted.
Decision(via, tx, payer, answers, status, detail, oracle) ==
    [via |-> via, tx |-> tx, payer |-> payer, window |-> Window(answers),
     status |-> status, detail |-> detail, oracle |-> oracle]

NoDecision == [via |-> "none", tx |-> None, payer |-> None,
               window |-> "unbound", status |-> 0, detail |-> "none",
               oracle |-> "notasked"]

Granted(tx) ==
    IF tx \in DOMAIN granted THEN [granted EXCEPT ![tx] = @ + 1] ELSE granted

Challenge ==
    /\ Cardinality(challenges) < MaxChallenges
    /\ challenge \notin challenges
    /\ challenges' = challenges \cup {challenge}
    /\ UNCHANGED <<now, ledger, lastDecision, granted, oracleConfirmed,
                   nverify, cliVars, splitVars, hsVars, e2eVars, kitVars>>

verify_request(message) ==
    LET tx_hash == message.payment_proof IN
    /\ nverify < MaxVerify
    /\ nverify' = nverify + 1
    /\ IF ~Truthy(tx_hash)
       THEN /\ Cardinality(challenges \cup {challenge}) <= MaxChallenges
            /\ challenges' = challenges \cup {challenge}
            /\ lastDecision' = Decision("handshake", tx_hash, None,
                                        message.answers, 402,
                                        "Payment Required", "notasked")
            /\ UNCHANGED <<granted, oracleConfirmed>>
       ELSE LET is_verified == verify_transaction(tx_hash, Price) IN
            IF is_verified
            THEN /\ lastDecision' = Decision("handshake", tx_hash, None,
                                             message.answers, 200,
                                             "granted", "confirmed")
                 /\ granted' = Granted(tx_hash)
                 /\ oracleConfirmed' = oracleConfirmed \cup {tx_hash}
                 /\ UNCHANGED challenges
            ELSE /\ lastDecision' = Decision("handshake", tx_hash, None,
                                             message.answers, 403,
                                             "Insufficient or invalid payment",
                                             "refused")
                 /\ UNCHANGED <<challenges, granted, oracleConfirmed>>
    /\ UNCHANGED <<now, ledger, cliVars, splitVars, hsVars, e2eVars, kitVars>>

-----------------------------------------------------------------------------
(* AgentPayyGate *)

GateMessages ==
    [payment_proof : TxInputs \cup {None, ""},
     is_premium : BOOLEAN]

process_inbound_message(message) ==
    /\ nverify < MaxVerify
    /\ nverify' = nverify + 1
    /\ IF message.is_premium /\ ~Truthy(message.payment_proof)
       THEN /\ lastDecision' = Decision("gate", message.payment_proof, None,
                                        NoChallenge, 402, "Payment Required",
                                        "notasked")
            /\ UNCHANGED <<granted, oracleConfirmed>>
       ELSE IF Truthy(message.payment_proof)
            THEN LET is_valid == verify_tx(message.payment_proof) IN
                 IF is_valid
                 THEN /\ lastDecision' = Decision("gate",
                                             message.payment_proof, None,
                                             NoChallenge, 200, "Success",
                                             "confirmed")
                      /\ granted' = Granted(message.payment_proof)
                      /\ oracleConfirmed' =
                             oracleConfirmed \cup {message.payment_proof}
                 ELSE /\ lastDecision' = Decision("gate",
                                             message.payment_proof, None,
                                             NoChallenge, 402,
                                             "Invalid Payment", "refused")
                      /\ UNCHANGED <<granted, oracleConfirmed>>
            ELSE /\ lastDecision' = Decision("gate", message.payment_proof,
                                             None, NoChallenge, 402,
                                             "Invalid Payment", "notasked")
                 /\ UNCHANGED <<granted, oracleConfirmed>>
    /\ UNCHANGED <<now, ledger, challenges, cliVars, splitVars, hsVars, e2eVars, kitVars>>

-----------------------------------------------------------------------------
(* AgentPayyMiddleware: the FastAPI paywall *)

PayerAddress == "0xPayer"

startswith(s, prefix) ==
    Len(s) >= Len(prefix) /\ SubSeq(s, 1, Len(prefix)) = prefix

_verify_payment_always(tx_hash, model_id, payer) == TRUE

\* len(tx_hash) == 66 and tx_hash.startswith("0x"); no ledger is consulted.
_verify_payment(tx_hash, model_id, payer) ==
    Len(tx_hash) = 66 /\ startswith(tx_hash, "0x")

\* What wrapper does with one request to an endpoint decorated with
\* paywall(model_id, price): the x-agentpayy-txhash and x-agentpayy-payer
\* headers it carries, and whether the endpoint's arguments hold a Request
\* object at all.
wrapper_decides(has_request, tx_hash, payer) ==
    /\ nverify < MaxVerify
    /\ nverify' = nverify + 1
    /\ IF ~has_request
       THEN /\ lastDecision' = Decision("paywall", None, None, NoChallenge,
                                        500, "Request object not found",
                                        "notasked")
            /\ UNCHANGED granted
       ELSE IF ~Truthy(tx_hash) \/ ~Truthy(payer)
       THEN /\ lastDecision' = Decision("paywall", tx_hash, payer,
                                        NoChallenge, 402, "Payment required",
                                        "notasked")
            /\ UNCHANGED granted
       ELSE IF ~_verify_payment(tx_hash, ServiceName, payer)
       THEN /\ lastDecision' = Decision("paywall", tx_hash, payer,
                                        NoChallenge, 402,
                                        "Payment verification failed",
                                        "notasked")
            /\ UNCHANGED granted
       ELSE /\ lastDecision' = Decision("paywall", tx_hash, payer,
                                        NoChallenge, 200, "handler",
                                        "notasked")
            /\ granted' = Granted(tx_hash)
    /\ UNCHANGED <<now, ledger, challenges, oracleConfirmed>>

\* One such request, from any sender.
wrapper(has_request, tx_hash, payer) ==
    /\ wrapper_decides(has_request, tx_hash, payer)
    /\ UNCHANGED <<cliVars, splitVars, hsVars, e2eVars, kitVars>>

-----------------------------------------------------------------------------
(* AgentPayyKit *)

\* wallet_data is None until a bootstrap stores the gateway's JSON answer,
\* of which the address is the part that is read.
NoWalletData == [isNone |-> TRUE, address |-> None]
WalletData(address) == [isNone |-> FALSE, address |-> address]

\* AgentPayyKit.__init__
NewKit == [wallet_data |-> NoWalletData, max_spend |-> 0, policies |-> {}]

\* Resource categories; the model identifier of a priced resource names one.
Category(model_id) == IF model_id = ServiceName THEN "weather" ELSE "unknown"

DefaultCategories == {"research", "compute"}

\* The guardrails a session may be bootstrapped with.
Guardrails ==
    {[max_spend |-> 2, allowed_categories |-> DefaultCategories],
     [max_spend |-> 4, allowed_categories |-> {"weather"}]}

\* What a call on the kit gave: for a bootstrap whether the gateway
\* answered 200, whether the call raised, and the address in what it
\* returned.
NoKitCall == [op |-> "none", answered_200 |-> FALSE, raised |-> FALSE,
              value |-> None]

\* bootstrap(agent_name, max_spend, allowed_categories): the gateway answers
\* with a status code, or the call to it faults (status_code 0).  An answer
\* of 200 is stored and returned; anything else raises, and the handler of
\* lines 55-57 raises it again.
bootstrap(max_spend, allowed_categories, status_code) ==
    /\ pc \in {"idle", "done"}
    /\ IF status_code = 200
       THEN /\ kit' = [wallet_data |-> WalletData(PayerAddress),
                       max_spend |-> max_spend,
                       policies |-> allowed_categories]
            /\ kit_call' = [op |-> "bootstrap", answered_200 |-> TRUE,
                            raised |-> FALSE, value |-> PayerAddress]
       ELSE /\ UNCHANGED kit
            /\ kit_call' = [op |-> "bootstrap", answered_200 |-> FALSE,
                            raised |-> TRUE, value |-> None]
    /\ UNCHANGED <<svcVars, splitVars, hsVars, e2eVars, pc, frames,
                   max_retries, tx_header, result, how, budget, lastResponse,
                   requestsSent, walletCalls, payments, spentSoFar, calls>>

get_address_never_raises(wallet_kit) == FALSE

\* get_address(): raises when wallet_data is not set.
get_address_raises(wallet_kit) == wallet_kit.isNone

\* get_address() on the kit: the address of wallet_data, or the exception.
get_address ==
    /\ pc \in {"idle", "done"}
    /\ kit_call' = IF get_address_raises(kit.wallet_data)
                   THEN [op |-> "get_address", answered_200 |-> FALSE,
                         raised |-> TRUE, value |-> None]
                   ELSE [op |-> "get_address", answered_200 |-> FALSE,
                         raised |-> FALSE, value |-> kit.wallet_data.address]
    /\ UNCHANGED <<svcVars, cliVars, splitVars, hsVars, e2eVars>>

\* The guardrails and gateway answers of a kit used on its own.
KitGuardrails ==
    [max_spend : {1, 2, 3, 4, 5},
     allowed_categories : SUBSET {"research", "compute", "weather"}]

GatewayAnswers == {200, 500, 0}

-----------------------------------------------------------------------------
(* X402Client *)

\* The value of a price header in minimum units, as the wallet reads it.
Units(price) ==
    CASE price = "1" -> 1
      [] price = "3" -> 3
      [] OTHER -> 0

\* The responses the service may give.  Only a 402 carries the payment
\* headers x-agentpay-price, x-agentpay-recipient and x-agentpay-model-id,
\* each of which may be absent; id tells the responses of one call apart.
Responses(id) ==
    [status_code : {402}, id : {id},
     price : {None, "", "abc", "1", "3"},
     recipient : {None, ServiceAddress},
     model_id : {None, ServiceName}]
    \cup
    [status_code : {200, 500}, id : {id},
     price : {None}, recipient : {None}, model_id : {None}]

\* kwargs carries no x-agentpay-tx header yet; kit.pay returns a transaction
\* whose tx_hash is told apart by the call and the payment that produced it.
NoProof == <<>>

NoResponse == [status_code |-> 0, id |-> 0, price |-> None,
               recipient |-> None, model_id |-> None]

\* The exception a call lets escape.
Fault == [status_code |-> -1, id |-> 0, price |-> None,
          recipient |-> None, model_id |-> None]

Last(seq) == seq[Len(seq)]

\* response.headers.get('x-agentpay-model-id', 'unknown')
ModelId(response) ==
    IF response.model_id = None THEN "unknown" ELSE response.model_id

PaymentRequiredAnyBudget(response, retries) ==
    response.status_code = 402

\* line 18: response.status_code == 402 and max_retries > 0
PaymentRequired(response, retries) ==
    response.status_code = 402 /\ retries > 0

MissingBothHeaders(response) ==
    ~Truthy(response.price) /\ ~Truthy(response.recipient)

\* line 26: not price or not recipient
MissingHeaders(response) ==
    ~Truthy(response.price) \/ ~Truthy(response.recipient)

RetryBudgetKept(retries) == retries

\* line 45: the budget handed to the retried request
RetryBudget(retries) == retries - 1

\* The caller invokes request(method, url, max_retries=n).
request(n) ==
    /\ pc \in {"idle", "done"}
    /\ calls < MaxCalls
    /\ calls' = calls + 1
    /\ pc' = "send"
    /\ frames' = <<>>
    /\ max_retries' = n
    /\ budget' = n
    /\ tx_header' = NoProof
    /\ result' = NoResponse
    /\ how' = "running"
    /\ lastResponse' = NoResponse
    /\ requestsSent' = 0
    /\ walletCalls' = 0
    /\ payments' = 0
    /\ paywallAnswers' = 0
    /\ UNCHANGED <<svcVars, splitVars, hsVars, kitVars, kit, spentSoFar>>

\* requests.request(method, url, **kwargs) returns, and the frame decides
\* what to do with the response (lines 16-30 and 51).
frame_receives(response) ==
    /\ pc = "send"
    /\ requestsSent' = requestsSent + 1
    /\ lastResponse' = response
    /\ IF PaymentRequired(response, max_retries) /\ ~MissingHeaders(response)
       THEN /\ pc' = "pay"
            /\ frames' = Append(frames, response)
            /\ UNCHANGED <<result, how>>
       ELSE /\ pc' = "done"
            /\ result' = response
            /\ how' = "return response"
            /\ UNCHANGED frames
    /\ UNCHANGED <<kit, max_retries, tx_header, budget, walletCalls,
                   payments, spentSoFar, calls>>

\* The response comes from some service.
receive(response) ==
    /\ frame_receives(response)
    /\ UNCHANGED <<svcVars, splitVars, hsVars, e2eVars, kitVars>>

\* requests.request raises.  In the outermost frame the exception escapes
\* to the caller; in a retried request it is raised inside the parent
\* frame's try block, whose handler returns the parent's response.
send_fault ==
    /\ pc = "send"
    /\ requestsSent' = requestsSent + 1
    /\ pc' = "done"
    /\ IF frames = <<>>
       THEN result' = Fault /\ how' = "raise"
       ELSE result' = Last(frames) /\ how' = "except after retry"
    /\ UNCHANGED <<svcVars, splitVars, hsVars, e2eVars, kitVars, kit, frames, max_retries, tx_header, budget,
                   lastResponse, walletCalls, payments, spentSoFar, calls>>

\* self.kit.pay(...) returns a transaction, which only a bootstrapped wallet
\* can produce: the proof is attached and the request is retried with one
\* retry less (lines 34-45).
pay_ok ==
    /\ pc = "pay"
    /\ ~kit.wallet_data.isNone
    /\ walletCalls' = walletCalls + 1
    /\ payments' = payments + 1
    /\ spentSoFar' = spentSoFar + Units(Last(frames).price)
    /\ tx_header' = <<"tx_hash", calls, payments + 1>>
    /\ max_retries' = RetryBudget(max_retries)
    /\ pc' = "send"
    /\ UNCHANGED <<svcVars, splitVars, hsVars, e2eVars, kitVars, kit, frames, result, how, budget, lastResponse,
                   requestsSent, calls>>

pay_fault_retried ==
    /\ pc = "pay"
    /\ walletCalls' = walletCalls + 1
    /\ pc' = "send"
    /\ UNCHANGED <<svcVars, splitVars, hsVars, e2eVars, kitVars, kit, frames, max_retries, tx_header, result, how,
                   budget, lastResponse, requestsSent, payments, spentSoFar,
                   calls>>

\* self.kit.pay(...) raises: the handler returns this frame's response
\* (lines 47-49).
pay_fault ==
    /\ pc = "pay"
    /\ walletCalls' = walletCalls + 1
    /\ pc' = "done"
    /\ result' = Last(frames)
    /\ how' = "except after pay"
    /\ UNCHANGED <<svcVars, splitVars, hsVars, e2eVars, kitVars, kit, frames, max_retries, tx_header, budget,
                   lastResponse, requestsSent, payments, spentSoFar, calls>>

-----------------------------------------------------------------------------
(* X402Client against the FastAPI paywall *)

\* headers.get(name): None when the header is absent.
HeaderGet(headers, name) ==
    IF name \in DOMAIN headers THEN headers[name] ELSE None

NoHeaders == [name \in {} |-> None]

\* The headers of the client's request: those of kwargs, to which the
\* caller contributes none; line 42 adds x-agentpay-tx before a retry.
RequestHeaders ==
    IF tx_header = NoProof THEN NoHeaders
    ELSE [name \in {"x-agentpay-tx"} |-> tx_header]

\* The headers of the paywall's answers: HTTPException and JSONResponse
\* are given a status code and a body, and no header of their own.
ResponseHeaders == [name \in {"content-type"} |-> "application/json"]

\* The paywall's answer as the client reads it: its status code and the
\* three headers of lines 22-24.
PaywallResponse(status_code, id) ==
    [status_code |-> status_code,
     id |-> id,
     price |-> HeaderGet(ResponseHeaders, "x-agentpay-price"),
     recipient |-> HeaderGet(ResponseHeaders, "x-agentpay-recipient"),
     model_id |-> HeaderGet(ResponseHeaders, "x-agentpay-model-id")]

\* The client's request reaches the paywall, whose wrapper reads its two
\* headers from it; the client's frame receives the answer.
paywall_answers ==
    /\ wrapper_decides(TRUE,
                       HeaderGet(RequestHeaders, "x-agentpayy-txhash"),
                       HeaderGet(RequestHeaders, "x-agentpayy-payer"))
    /\ frame_receives(PaywallResponse(lastDecision'.status, requestsSent + 1))
    /\ paywallAnswers' = paywallAnswers + 1
    /\ UNCHANGED <<splitVars, hsVars, kitVars>>

-----------------------------------------------------------------------------
(* AgentEconomyHandshake: construction and challenge() *)

NoHandshake ==
    [service_name |-> None, price |-> 0,
     wallet |-> [isNone |-> TRUE, address |-> None]]

\* The arguments a handshake may be constructed with.
ServiceNames == {ServiceName, ""}
Prices == {Price, 1, 0, -1}
WalletKits == {NoWalletData, WalletData(ServiceAddress)}

NoIssue == [kind |-> "none", self |-> NoHandshake, value |-> NoChallenge]

\* AgentEconomyHandshake.__init__(wallet_kit, service_name, price_usdc): the
\* three arguments are stored as they come.
new_handshake(wallet_kit, service_name, price_usdc) ==
    /\ handshake' = [service_name |-> service_name,
                     price |-> price_usdc,
                     wallet |-> wallet_kit]
    /\ UNCHANGED <<svcVars, cliVars, splitVars, e2eVars, kitVars, issued>>

\* challenge() on the handshake: the dictionary, or the exception that
\* self.wallet.get_address() raises on a kit that was not bootstrapped.
issue_challenge ==
    /\ handshake # NoHandshake
    /\ issued' = IF get_address_raises(handshake.wallet)
                 THEN [kind |-> "Exception", self |-> handshake,
                       value |-> NoChallenge]
                 ELSE [kind |-> "challenge", self |-> handshake,
                       value |-> challenge_of(handshake)]
    /\ UNCHANGED <<svcVars, cliVars, splitVars, e2eVars, kitVars, handshake>>

-----------------------------------------------------------------------------
(* AgentPayyWallet.pay_with_splits *)

\* The two AgentPayyWallet classes of the repository: the one of the package
\* sources, whose __init__ sets self.agent_kit and never self.wallet, and
\* the one under build/lib, whose __init__ sets self.wallet.
WalletClasses == {"package", "build"}

HasWallet(class) == class = "build"

\* platform_wallet
PlatformWallet(class) ==
    IF class = "build" THEN "0x742d35Cc6634C0532925a3b844Bc454e4438f44e"
    ELSE "0xAgentPayyMasterVault..."

AuthorAddress == "0xAuthor"
AffiliateAddress == "0xAffiliate"

\* The amounts a caller may pass (as floats), and the affiliates.
Amounts == {FromInt(n) : n \in {1, 3, 7, 20, 100, 0, -20}}
Affiliates == {None, AffiliateAddress}

\* author_cut = amount * 0.80
AuthorCut(a) == fmul(a, Float080)

AffiliateCutAnyway(a, affiliate) == fmul(a, Float005)

\* affiliate_cut = amount * 0.05 if affiliate_address else 0
AffiliateCut(a, affiliate) ==
    IF Truthy(affiliate) THEN fmul(a, Float005) ELSE Zero

PlatformCutOfAuthorOnly(a, author, affiliate) == fsub(a, author)

\* platform_cut = amount - author_cut - affiliate_cut
PlatformCut(a, author, affiliate) == fsub(fsub(a, author), affiliate)

NoOutcome == [kind |-> "none", results |-> <<>>]

\* The call, up to the first transfer: the cuts are computed and results is
\* the empty list.
pay_with_splits(class, a, affiliate) ==
    /\ spc = "idle"
    /\ wallet_class' = class
    /\ amount' = a
    /\ affiliate_address' = affiliate
    /\ author_cut' = AuthorCut(a)
    /\ affiliate_cut' = AffiliateCut(a, affiliate)
    /\ platform_cut' = PlatformCut(a, AuthorCut(a), AffiliateCut(a, affiliate))
    /\ transfers' = <<>>
    /\ spc' = "author"
    /\ UNCHANGED <<svcVars, cliVars, hsVars, e2eVars, kitVars, outcome>>

\* The transfer the call is about to issue.
NextTransfer ==
    CASE spc = "author" ->
            [amount |-> author_cut, asset |-> "usdc", to |-> AuthorAddress]
      [] spc = "platform" ->
            [amount |-> platform_cut, asset |-> "usdc",
             to |-> PlatformWallet(wallet_class)]
      [] spc = "affiliate" ->
            [amount |-> affiliate_cut, asset |-> "usdc",
             to |-> affiliate_address]

\* Where the call goes after a transfer has returned.
AfterTransfer ==
    CASE spc = "author" -> "platform"
      [] spc = "platform" ->
            IF IsPositive(affiliate_cut) THEN "affiliate" ELSE "returned"
      [] spc = "affiliate" -> "returned"

Completed(seq) == SelectSeq(seq, LAMBDA t : t.ok)

\* self.wallet.transfer(...) returns: its result is appended to results,
\* and after the last transfer results is returned.
transfer_returns ==
    /\ spc \in {"author", "platform", "affiliate"}
    /\ HasWallet(wallet_class)
    /\ transfers' = Append(transfers, NextTransfer @@ [ok |-> TRUE])
    /\ spc' = AfterTransfer
    /\ outcome' = IF AfterTransfer = "returned"
                  THEN [kind |-> "results", results |-> Completed(transfers')]
                  ELSE outcome
    /\ UNCHANGED <<svcVars, cliVars, hsVars, e2eVars, kitVars, wallet_class, amount, affiliate_address,
                   author_cut, affiliate_cut, platform_cut>>

\* self.wallet.transfer(...) raises: the exception leaves pay_with_splits
\* and the results list is dropped with its frame.
transfer_raises ==
    /\ spc \in {"author", "platform", "affiliate"}
    /\ HasWallet(wallet_class)
    /\ transfers' = Append(transfers, NextTransfer @@ [ok |-> FALSE])
    /\ spc' = "raised"
    /\ outcome' = [kind |-> "exception", results |-> <<>>]
    /\ UNCHANGED <<svcVars, cliVars, hsVars, e2eVars, kitVars, wallet_class, amount, affiliate_address,
                   author_cut, affiliate_cut, platform_cut>>

\* self.wallet does not exist: the first transfer raises AttributeError
\* before any wallet is reached.
no_wallet ==
    /\ spc = "author"
    /\ ~HasWallet(wallet_class)
    /\ spc' = "raised"
    /\ outcome' = [kind |-> "exception", results |-> <<>>]
    /\ UNCHANGED <<svcVars, cliVars, hsVars, e2eVars, kitVars, wallet_class, amount, affiliate_address,
                   author_cut, affiliate_cut, platform_cut, transfers>>

-----------------------------------------------------------------------------

Init ==
    /\ now = 0
    /\ ledger = [tx \in LedgerTxs |-> "none"]
    /\ challenges = {}
    /\ lastDecision = NoDecision
    /\ granted = [tx \in TxInputs |-> 0]
    /\ oracleConfirmed = {}
    /\ nverify = 0
    /\ kit = NewKit
    /\ pc = "idle"
    /\ frames = <<>>
    /\ max_retries = 0
    /\ tx_header = NoProof
    /\ result = NoResponse
    /\ how = "idle"
    /\ budget = 0
    /\ lastResponse = NoResponse
    /\ requestsSent = 0
    /\ walletCalls = 0
    /\ payments = 0
    /\ spentSoFar = 0
    /\ calls = 0
    /\ wallet_class = "package"
    /\ spc = "idle"
    /\ amount = Zero
    /\ affiliate_address = None
    /\ author_cut = Zero
    /\ affiliate_cut = Zero
    /\ platform_cut = Zero
    /\ transfers = <<>>
    /\ outcome = NoOutcome
    /\ handshake = NoHandshake
    /\ issued = NoIssue
    /\ paywallAnswers = 0
    /\ kit_call = NoKitCall

NextVerifier ==
    \/ Tick
    \/ \E tx \in LedgerTxs : LedgerSubmit(tx)
    \/ \E tx \in LedgerTxs : LedgerConfirm(tx)
    \/ Challenge
    \/ \E m \in Messages : verify_request(m)
    \/ \E m \in GateMessages : process_inbound_message(m)
    \/ \E r \in BOOLEAN, tx \in TxInputs \cup {None, ""},
          p \in {None, PayerAddress} : wrapper(r, tx, p)

SpecVerifier == Init /\ [][NextVerifier]_vars

NextClient ==
    \/ \E g \in Guardrails, sc \in {200, 500, 0} :
          bootstrap(g.max_spend, g.allowed_categories, sc)
    \/ \E n \in 0..MaxRetries : request(n)
    \/ \E r \in Responses(requestsSent + 1) : receive(r)
    \/ send_fault
    \/ pay_ok
    \/ pay_fault

SpecClient == Init /\ [][NextClient]_vars

\* A step of a call in progress: a network or wallet call returns or fails.
CallStep ==
    \/ \E r \in Responses(requestsSent + 1) : receive(r)
    \/ send_fault
    \/ pay_ok
    \/ pay_fault

\* Every network and wallet call of a call in progress comes to an end.
SpecClientLive == SpecClient /\ WF_vars(CallStep)

NextSplit ==
    \/ \E c \in WalletClasses, a \in Amounts, f \in Affiliates :
          pay_with_splits(c, a, f)
    \/ transfer_returns
    \/ transfer_raises
    \/ no_wallet

SpecSplit == Init /\ [][NextSplit]_vars

NextKit ==
    \/ \E g \in KitGuardrails, sc \in GatewayAnswers :
          bootstrap(g.max_spend, g.allowed_categories, sc)
    \/ get_address

SpecKit == Init /\ [][NextKit]_vars

NextEndToEnd ==
    \/ NextClient
    \/ paywall_answers

SpecEndToEnd == Init /\ [][NextEndToEnd]_vars

NextChallenge ==
    \/ \E w \in WalletKits, n \in ServiceNames, p \in Prices :
          new_handshake(w, n, p)
    \/ issue_challenge
    \/ Tick

SpecChallenge == Init /\ [][NextChallenge]_vars

-----------------------------------------------------------------------------
(* Properties of the verifiers (SpecVerifier) *)

\* C1: a transaction reference is granted access at most once, whichever
\* verifier it is presented to and however often.
C1_GrantedAtMostOnce == \A tx \in TxInputs : granted[tx] <= 1

\* C2: every grant is preceded by a ledger-oracle call on the same
\* transaction reference that returned confirmed.
C2_GrantNeedsOracle ==
    lastDecision.status = 200 => lastDecision.tx \in oracleConfirmed

\* The terms of a payment differ from those the service asks for.
TermsMismatch(tx) ==
    \/ TxFields(tx).recipient # ServiceAddress
    \/ TxFields(tx).asset # ServiceAsset
    \/ TxFields(tx).network # ServiceNetwork
    \/ TxFields(tx).amount < Price

\* C3: a proof whose recipient, asset or network differs from the
\* challenge's, or whose amount is below the price, is never granted.
C3_MismatchNeverGranted ==
    (lastDecision.tx \in LedgerTxs /\ TermsMismatch(lastDecision.tx))
        => lastDecision.status # 200

\* C4: a proof presented outside the validity window of the challenge it
\* answers is never granted.
C4_ExpiredNeverGranted ==
    lastDecision.window = "expired" => lastDecision.status # 200

-----------------------------------------------------------------------------
(* Properties of X402Client.request (SpecClient) *)

\* A response names no price or no recipient: the header is absent or empty.
LacksPriceOrRecipient(response) ==
    \/ response.price \in {None, ""}
    \/ response.recipient \in {None, ""}

\* This step is requests.request returning a response.
Received == pc = "send" /\ lastResponse'.id = requestsSent + 1

\* This step is an invocation of kit.pay.
WalletInvoked == walletCalls' = walletCalls + 1

\* Once a call has returned it does nothing more: only a new call moves on.
DoneIsFinal ==
    (pc = "done" /\ calls' = calls) =>
        /\ requestsSent' = requestsSent
        /\ walletCalls' = walletCalls
        /\ payments' = payments
        /\ spentSoFar' = spentSoFar
        /\ result' = result

\* C5: one call with budget n makes at most n wallet payments, and every
\* payment is paired with one decrement of the budget.
C5_PaymentsWithinBudget ==
    /\ payments <= budget
    /\ walletCalls <= budget
    /\ pc # "idle" => payments + max_retries = budget

C5_Witness ==
    /\ pc = "done"
    /\ budget >= 2
    /\ payments = budget
    /\ result.status_code = 402
    /\ result.id = budget + 1

\* C6: the session's running total of payments never exceeds max_spend.
C6_SpendWithinLimit == spentSoFar <= kit.max_spend

\* The spending policy permits paying what a 402 response asks for.
PolicyAllows(response) ==
    /\ Category(ModelId(response)) \in kit.policies
    /\ spentSoFar + Units(response.price) <= kit.max_spend

\* C7: the wallet is never called for a response whose category is not
\* allowed or whose price would take spentSoFar over max_spend.
C7_PolicyBeforeWallet ==
    [][WalletInvoked => PolicyAllows(Last(frames))]_vars

\* C8: a response that is not payment-required, or that arrives when the
\* remaining budget is 0, is returned as it is, with no payment and no
\* further request.
C8_ReturnedAsIs ==
    [][/\ (Received /\ (lastResponse'.status_code # 402 \/ max_retries = 0))
            => /\ pc' = "done"
               /\ result' = lastResponse'
               /\ walletCalls' = walletCalls
               /\ tx_header' = tx_header
       /\ DoneIsFinal]_vars

C8_Witness ==
    /\ pc = "done"
    /\ budget >= 1
    /\ max_retries = 0
    /\ payments = budget
    /\ result = lastResponse
    /\ result.status_code = 402
    /\ ~LacksPriceOrRecipient(result)

\* The terms of a 402 response are incomplete or malformed.
TermsMissingOrMalformed(response) ==
    \/ ~Truthy(response.price)
    \/ ~Truthy(response.recipient)
    \/ response.model_id = None
    \/ Units(response.price) = 0

\* C9 as stated: the wallet is never invoked for a response that lacks the
\* price, the recipient or the model identifier, or whose terms are
\* malformed.
C9_NoWalletWithoutTerms ==
    [][WalletInvoked => ~TermsMissingOrMalformed(Last(frames))]_vars

\* C9 as amended: a payment-required response without a price or without a
\* recipient (absent or empty) is returned unchanged, and the wallet is
\* never invoked for it; with budget left, every other payment-required
\* response goes on to the wallet, whatever its model identifier and
\* however its price is written.
C9_MissingPriceOrRecipient ==
    [][/\ (Received /\ LacksPriceOrRecipient(lastResponse'))
            => /\ pc' = "done"
               /\ result' = lastResponse'
               /\ walletCalls' = walletCalls
       /\ WalletInvoked => ~LacksPriceOrRecipient(Last(frames))
       /\ (/\ Received
           /\ lastResponse'.status_code = 402
           /\ max_retries > 0
           /\ ~LacksPriceOrRecipient(lastResponse'))
            => pc' = "pay" /\ Last(frames') = lastResponse'
       /\ DoneIsFinal]_vars

C9_Witness ==
    /\ pc = "done"
    /\ max_retries > 0
    /\ result = lastResponse
    /\ result.status_code = 402
    /\ result.price = "1"
    /\ result.recipient = None
    /\ walletCalls = 0

\* C10: when kit.pay fails the call ends at once with the payment-required
\* response that asked for the payment: no retried request, no second
\* payment even if budget remains, no spend recorded.
C10_WalletFailureEndsCall ==
    [][/\ (WalletInvoked /\ payments' = payments)
            => /\ pc' = "done"
               /\ result' = lastResponse
               /\ result'.status_code = 402
               /\ requestsSent' = requestsSent
               /\ spentSoFar' = spentSoFar
               /\ tx_header' = tx_header
               /\ max_retries' = max_retries
       /\ DoneIsFinal]_vars

C10_Witness ==
    /\ pc = "done"
    /\ how = "except after pay"
    /\ max_retries >= 2
    /\ walletCalls = 1
    /\ payments = 0
    /\ ~kit.wallet_data.isNone
    /\ result.status_code = 402

\* C11: every call with budget n reaches Done, after at most n + 1 requests
\* to the service, whatever the service and the wallet do.
C11_CallTerminates ==
    /\ [](requestsSent <= budget + 1)
    /\ [](pc \in {"send", "pay"} => <>(pc = "done"))

C11_Witness ==
    /\ pc = "done"
    /\ budget >= 2
    /\ requestsSent = budget + 1
    /\ payments = budget

-----------------------------------------------------------------------------
(* Properties of the revenue split (SpecSplit) *)

Called == spc # "idle"

HasAffiliate == Truthy(affiliate_address)

\* The sum of the amounts of a sequence of transfers, without rounding.
RECURSIVE SumAmounts(_)
SumAmounts(seq) ==
    IF seq = <<>> THEN Zero
    ELSE ExactAdd(seq[1].amount, SumAmounts(Tail(seq)))

\* C12: for an amount greater than zero the three cuts are non-negative and
\* add up to the amount exactly, and the transfers of a completed
\* settlement add up to the amount.
C12_CutsSumToAmount ==
    (Called /\ IsPositive(amount)) =>
        /\ ~author_cut.neg /\ ~affiliate_cut.neg /\ ~platform_cut.neg
        /\ ExactAdd(ExactAdd(author_cut, affiliate_cut), platform_cut) = amount
        /\ spc = "returned" => SumAmounts(transfers) = amount

\* Amounts in minimum units, and the part of a percentage that fits in
\* whole units.
UnitAmounts == 1 .. 100

FloorPercent(p, n) == (p * n) \div 100

\* C13: the author's cut is 80% of the amount cut down to whole minimum
\* units, and the affiliate's cut is 5% cut down to whole minimum units
\* when there is an affiliate, and zero when there is none.
C13_CutsTruncated ==
    \A n \in UnitAmounts :
        (Called /\ amount = FromInt(n)) =>
            /\ author_cut = FromInt(FloorPercent(80, n))
            /\ affiliate_cut = IF HasAffiliate
                               THEN FromInt(FloorPercent(5, n)) ELSE Zero

\* Amounts every percentage of which is a whole number.
DivisibleAmounts == {n \in UnitAmounts : n % 20 = 0}

\* C14 as stated: the platform's remainder is 20% of the amount when there
\* is an affiliate and 25% when there is none.
C14_PlatformTwentyOrTwentyFive ==
    \A n \in DivisibleAmounts :
        (Called /\ amount = FromInt(n)) =>
            platform_cut = FromInt(FloorPercent(IF HasAffiliate THEN 20 ELSE 25, n))

\* C14, amended: the platform takes what is left of the amount after the
\* author's and the affiliate's cuts: 15% when there is an affiliate and
\* 20% when there is none.
C14_PlatformFifteenOrTwenty ==
    \A n \in DivisibleAmounts :
        (Called /\ amount = FromInt(n)) =>
            platform_cut = FromInt(FloorPercent(IF HasAffiliate THEN 15 ELSE 20, n))

C14_Witness ==
    /\ spc = "returned"
    /\ amount = FromInt(20)
    /\ HasAffiliate
    /\ platform_cut = FromInt(3)
    /\ transfers[2].amount = FromInt(3)

\* The transfers of a settlement of n units that has run to its end.
SplitTransfers(n) ==
    <<[amount |-> FromInt(FloorPercent(80, n)), to |-> AuthorAddress]>>
    \o <<[amount |-> FromInt(FloorPercent(IF HasAffiliate THEN 15 ELSE 20, n)),
          to |-> PlatformWallet(wallet_class)]>>
    \o IF HasAffiliate
       THEN <<[amount |-> FromInt(FloorPercent(5, n)), to |-> AffiliateAddress]>>
       ELSE <<>>

C16_InvalidAmountNoTransfer ==
    (Called /\ ~IsPositive(amount)) =>
        /\ transfers = <<>>
        /\ spc = "raised" => outcome.kind = "InvalidAmount"

\* C20: when a transfer fails after the author's transfer went through,
\* the caller gets a PartialSettlement that names the transfers that went
\* through.
C20_PartialSettlementSurfaced ==
    (spc = "raised" /\ Completed(transfers) # <<>>) =>
        /\ outcome.kind = "PartialSettlement"
        /\ outcome.results = Completed(transfers)

-----------------------------------------------------------------------------
(* Properties of the challenges (SpecVerifier) *)

\* C17: two challenges issued for the service at distinct instants carry
\* distinct transaction memos.
C17_MemosDistinct ==
    \A c1, c2 \in challenges :
        c1.issuedAt # c2.issuedAt => c1.transaction_memo # c2.transaction_memo

-----------------------------------------------------------------------------
(* Properties of challenge() (SpecChallenge) *)

InvalidChallengeInput(self) == self.price <= 0 \/ self.service_name = ""

\* C18: issuing a challenge fails with InvalidChallengeInput exactly when
\* the price is zero or less or the resource identifier is empty, and for
\* every other input it gives a challenge.
C18_FailsExactlyOnInvalidInput ==
    issued.kind # "none" =>
        IF InvalidChallengeInput(issued.self)
        THEN issued.kind = "InvalidChallengeInput"
        ELSE issued.kind = "challenge"

-----------------------------------------------------------------------------
(* Properties of the client against the paywall (SpecEndToEnd) *)

\* Every request of the call was answered by the paywall, and every call
\* of the wallet gave a transaction.
PaywallCall ==
    /\ requestsSent >= 1
    /\ paywallAnswers = requestsSent
    /\ payments = walletCalls

\* C19: a call with a budget of one or more on a bootstrapped kit, against
\* a resource behind the paywall, with a wallet that pays, ends with the
\* resource's success response after exactly one payment.
C19_PaidCallSucceeds ==
    (pc = "done" /\ budget >= 1 /\ ~kit.wallet_data.isNone /\ PaywallCall) =>
        /\ result.status_code = 200
        /\ payments = 1

-----------------------------------------------------------------------------
(* Properties of the rejections (SpecVerifier) *)

\* This step is a verifier consulting the oracle and being refused.
OracleRefused ==
    /\ nverify' = nverify + 1
    /\ lastDecision'.via \in {"handshake", "gate"}
    /\ lastDecision'.oracle = "refused"

\* C21: a proof the oracle knows as pending is rejected as NotYetConfirmed,
\* and a proof the oracle does not know is rejected as InvalidTransaction,
\* which is another outcome.
C21_RejectionsDistinguished ==
    [][OracleRefused =>
         /\ LedgerStatus(lastDecision'.tx) = "pending"
               => lastDecision'.detail = "NotYetConfirmed"
         /\ LedgerStatus(lastDecision'.tx) = "none"
               => lastDecision'.detail = "InvalidTransaction"]_vars

-----------------------------------------------------------------------------
(* Properties of the transfers of a settlement (SpecSplit) *)

\* How many of the three cuts are not zero.
NonZeroCuts ==
    Cardinality({c \in {"author", "affiliate", "platform"} :
                    CASE c = "author" -> author_cut # Zero
                      [] c = "affiliate" -> affiliate_cut # Zero
                      [] c = "platform" -> platform_cut # Zero})

\* C22: no transfer of amount zero is ever issued, and a settlement that
\* has run to its end has issued one transfer for each cut that is not
\* zero.
C22_OneTransferPerNonZeroCut ==
    /\ \A i \in 1 .. Len(transfers) : transfers[i].amount # Zero
    /\ spc = "returned" => Len(transfers) = NonZeroCuts

-----------------------------------------------------------------------------
(* Properties of the retried request (SpecEndToEnd) *)

\* The request about to be sent carries value under the header name.
Carries(name, value) ==
    name \in DOMAIN RequestHeaders /\ RequestHeaders[name] = value

\* C23: a request sent after a wallet payment carries the transaction
\* reference of that payment and the payer's account under the two headers
\* the paywall reads.
C23_RetryCarriesProof ==
    (pc = "send" /\ payments >= 1) =>
        /\ Carries("x-agentpayy-txhash", <<"tx_hash", calls, payments>>)
        /\ Carries("x-agentpayy-payer", kit.wallet_data.address)

-----------------------------------------------------------------------------
(* Properties of AgentPayyKit (SpecKit) *)

\* C24: once a bootstrap has succeeded, max_spend and policies are not
\* changed by any later operation on the kit.
C24_GuardrailsSetOnce ==
    [][~kit.wallet_data.isNone =>
         /\ kit'.max_spend = kit.max_spend
         /\ kit'.policies = kit.policies]_vars

\* C27: a bootstrap that the gateway does not answer with 200 raises and
\* leaves wallet_data, max_spend and policies as they were; get_address
\* raises, and returns no address, as long as no bootstrap has succeeded.
C27_FailedBootstrapKeepsKit ==
    [][/\ (kit_call'.op = "bootstrap" /\ ~kit_call'.answered_200) =>
            /\ kit_call'.raised
            /\ kit'.wallet_data = kit.wallet_data
            /\ kit'.max_spend = kit.max_spend
            /\ kit'.policies = kit.policies
       /\ (kit_call'.op = "get_address" /\ kit.wallet_data.isNone) =>
            /\ kit_call'.raised
            /\ kit_call'.value = None
            /\ kit' = kit
       /\ (kit.wallet_data.isNone /\ ~kit'.wallet_data.isNone) =>
            /\ kit_call'.op = "bootstrap"
            /\ kit_call'.answered_200]_vars

C27_Witness ==
    /\ kit_call.op = "bootstrap"
    /\ ~kit_call.answered_200
    /\ kit_call.raised
    /\ ~kit.wallet_data.isNone
    /\ kit.max_spend = 4

-----------------------------------------------------------------------------
(* Properties of the outcome of a paid call (SpecClient) *)

\* C25: once a payment of the call has succeeded, the call ends with the
\* outcome of the last request it sent: that request's response, or the
\* fault raised while sending it.
C25_PaidCallReportsRetry ==
    (pc = "done" /\ payments >= 1) =>
        \/ result = Fault
        \/ result.id = requestsSent

-----------------------------------------------------------------------------
(* Properties of the paywall and the gate (SpecVerifier) *)

\* A string of the shape of a transaction hash.
HashShaped(tx) == Len(tx) = 66 /\ SubSeq(tx, 1, 2) = "0x"

\* The handler behind the paywall ran only for a request with both headers
\* and a hash the paywall accepted.
HandlerOnlyWhenPaid ==
    (lastDecision.via = "paywall" /\ lastDecision.status = 200) =>
        /\ lastDecision.tx \notin {None, ""}
        /\ lastDecision.payer \notin {None, ""}
        /\ HashShaped(lastDecision.tx)
        /\ lastDecision.detail = "handler"

\* The gate answers 200 only for a proof its oracle confirmed.
GateOnlyWhenConfirmed ==
    (lastDecision.via = "gate" /\ lastDecision.status = 200) =>
        /\ lastDecision.tx \notin {None, ""}
        /\ lastDecision.oracle = "confirmed"
        /\ lastDecision.tx \in oracleConfirmed

=============================================================================
